---- MODULE Spec2Model ----
(***************************************************************************)
(* The Synacor virtual machine of src/src/synacor.rs: struct Vm (pc, bin,  *)
(* regs, stack, input), the run loop Vm::run, the decoder Vm::next_op and  *)
(* the executor Vm::run_op, one action per opcode.                         *)
(*                                                                         *)
(* A panic of the Rust code (index out of bounds, unwrap of None, the      *)
(* explicit panic! calls, arithmetic checks) ends the process: it is       *)
(* modelled by setting `fault`, after which no action is enabled.  The     *)
(* fields keep whatever the code had already assigned when it panicked.    *)
(***************************************************************************)
EXTENDS Integers, Sequences, FiniteSets, TLC

(* ---------------------------------------------------------------------- *)
(* Bounds of the model                                                     *)
(* ---------------------------------------------------------------------- *)
MaxStack == 3
MaxOut == 3

(* ---------------------------------------------------------------------- *)
(* Program constants                                                       *)
(* ---------------------------------------------------------------------- *)
\* 32768: the modulus of Vm::set and of the register index, first register word
Modulus == 32768
\* regs: vec![0; 8]
NumRegs == 8
\* u16: the width of the words of bin, regs and stack
WordSize == 65536
\* u8: the width of the bytes of input and of `a as u8`
ByteSize == 256
\* ARITY: [usize; 22]
NumOps == 22
\* '\n' as u8
Newline == 10

\* ARITY, indexed from 1 (opcode + 1)
ARITY == <<0, 2, 1, 1, 3, 3, 1, 2, 2, 3, 3, 3, 3, 3, 2, 2, 2, 1, 0, 1, 1, 0>>

\* enum Op, in opcode order, indexed from 1 (opcode + 1)
OpTag == <<"Hlt", "Set", "Push", "Pop", "Eq", "Gt", "Jmp", "Jt", "Jf", "Add",
           "Mul", "Mod", "And", "Or", "Not", "Rmem", "Wmem", "Call", "Ret",
           "Out", "In", "Noop">>

(* ---------------------------------------------------------------------- *)
(* Memory: bin: Vec<u16>.  A vector of len words is kept as its length,    *)
(* the words stored at the addresses of DOMAIN w, and the word `fill`      *)
(* found at every other address below len (a lossless encoding that keeps  *)
(* images of more than 65536 words small).                                 *)
(* ---------------------------------------------------------------------- *)
BinRead(b, addr) == IF addr \in DOMAIN b.w THEN b.w[addr] ELSE b.fill

InBoundsAlways(b, addr) == TRUE

InBounds(b, addr) == addr >= 0 /\ addr < b.len

\* self.bin[a as usize] = b
BinWriteDropped(b, addr, val) == b

BinWriteLossy(b, addr, val) ==
    [b EXCEPT !.w = [j \in (DOMAIN b.w) \cup {addr} |->
                        IF j = addr THEN val % ByteSize ELSE b.w[j]]]

BinWrite(b, addr, val) ==
    [b EXCEPT !.w = [j \in (DOMAIN b.w) \cup {addr} |->
                        IF j = addr THEN val ELSE b.w[j]]]

\* an image given as the sequence of its words
Image(ws) == [len |-> Len(ws), fill |-> 0, w |-> [j \in 0 .. Len(ws) - 1 |-> ws[j + 1]]]

(* ---------------------------------------------------------------------- *)
(* Pure helpers of run_op                                                  *)
(* ---------------------------------------------------------------------- *)
\* closure v: the third arm panics
Resolvable(x) == x < Modulus + NumRegs

\* closure v, first two arms
v(r, x) == IF x < Modulus THEN x ELSE r[x % Modulus]

\* Vm::set: self.regs[reg as usize % 32768] panics when the index is not below 8
SetOk(reg) == reg % Modulus < NumRegs

setViaReg(r, reg, val) == [r EXCEPT ![r[reg % Modulus] % NumRegs] = val % Modulus]

setNoMod(r, reg, val) == [r EXCEPT ![reg % Modulus] = val]

set(r, reg, val) == [r EXCEPT ![reg % Modulus] = val % Modulus]

\* closure int
intInverted(b) == IF b THEN 0 ELSE 1

int(b) == IF b THEN 1 ELSE 0

RECURSIVE BitAnd(_, _)
\* u16 & u16
BitAnd(x, y) ==
    IF x = 0 \/ y = 0 THEN 0
    ELSE (x % 2) * (y % 2) + 2 * BitAnd(x \div 2, y \div 2)

RECURSIVE BitOr(_, _)
\* u16 | u16
BitOr(x, y) ==
    IF x = 0 THEN y
    ELSE IF y = 0 THEN x
    ELSE (IF x % 2 = 1 \/ y % 2 = 1 THEN 1 ELSE 0) + 2 * BitOr(x \div 2, y \div 2)

\* !x on u16
BitNotNeg(x) == (WordSize - x) % WordSize

BitNot(x) == (WordSize - 1) - x

\* print!("{}", c as char) for a byte c: the UTF-8 encoding of U+0000..U+00FF
Utf8(c) ==
    IF c < 128 THEN <<c>>
    ELSE <<192 + (c \div 64), 128 + (c % 64)>>

\* handle.read_until('\n' as u8, ..): the bytes up to and including the first
\* newline, or all the remaining bytes when there is none
RECURSIVE LineLen(_)
LineLen(s) ==
    IF s = <<>> THEN 0
    ELSE IF Head(s) = Newline THEN 1
    ELSE 1 + LineLen(Tail(s))

\* Vec::reverse
ReverseNot(s) == s

Reverse(s) == [j \in 1 .. Len(s) |-> s[Len(s) + 1 - j]]

\* the last element (Vec::pop returns it) and the rest
Last(s) == s[Len(s)]

Front(s) == SubSeq(s, 1, Len(s) - 1)

(* ---------------------------------------------------------------------- *)
(* State                                                                   *)
(* ---------------------------------------------------------------------- *)
VARIABLES
    pc,       \* Vm.pc: usize
    bin,      \* Vm.bin: Vec<u16>
    regs,     \* Vm.regs: Vec<u16>, indexed 0..7
    stack,    \* Vm.stack: Vec<u16>, top at the end
    input,    \* Vm.input: Vec<u8>, next byte at the end
    state,    \* the local `state` of Vm::run
    op,       \* the local `op` of Vm::run: the instruction decoded last
    at,       \* position in the loop of Vm::run: "next_op" or "run_op"
    fault,    \* "none", or the kind of the panic that ended the process
    out,      \* the bytes print! has written to the output channel
    stdin,    \* the bytes the input channel has not delivered yet
    i,        \* the local `i` of next_op: the address of the instruction decoded last
    retaddr,  \* history: for each stack entry, the address of the Call that pushed it, or -1
    wrote     \* history: address |-> resolved value of the last Wmem to it

vars == <<pc, bin, regs, stack, input, state, op, at, fault, out, stdin, i, retaddr, wrote>>

NoOp == [tag |-> "none", a |-> 0, b |-> 0, c |-> 0]

(* ---------------------------------------------------------------------- *)
(* Vm::run: the loop                                                       *)
(* ---------------------------------------------------------------------- *)
\* while let State::Running = state
LoopGuardAlways(s) == TRUE

LoopGuard(s) == s = "Running"

\* a panic unwinds out of run: nothing is assigned any more
Panic(kind) == fault' = kind /\ UNCHANGED <<at, state>>

\* a panic before the instruction has assigned anything
Abort(kind) ==
    /\ Panic(kind)
    /\ UNCHANGED <<pc, bin, regs, stack, input, out, stdin, retaddr, wrote>>

\* run_op returns State::Running (line 216) and run assigns it to state
Continue == at' = "next_op" /\ state' = "Running" /\ UNCHANGED fault

\* run_op returns State::Halted and run assigns it to state
Halt == at' = "next_op" /\ state' = "Halted" /\ UNCHANGED fault

(* ---------------------------------------------------------------------- *)
(* Vm::next_op                                                             *)
(* ---------------------------------------------------------------------- *)
\* the Op built by the match of next_op from the words at i .. i + 3
Decode(b, at0) ==
    LET code == BinRead(b, at0)
        n == ARITY[code + 1]
    IN [tag |-> OpTag[code + 1],
        a |-> IF n >= 1 THEN BinRead(b, at0 + 1) ELSE 0,
        b |-> IF n >= 2 THEN BinRead(b, at0 + 2) ELSE 0,
        c |-> IF n >= 3 THEN BinRead(b, at0 + 3) ELSE 0]

NextOp ==
    /\ at = "next_op"
    /\ fault = "none"
    /\ LoopGuard(state)
    /\ UNCHANGED <<bin, regs, stack, input, state, out, stdin, retaddr, wrote>>
    /\ i' = pc
    /\ IF ~InBounds(bin, pc)
         THEN \* b[i] panics
              fault' = "OutOfBounds" /\ UNCHANGED <<pc, op, at>>
       ELSE IF BinRead(bin, pc) >= NumOps
         THEN \* ARITY[b[i] as usize] panics
              fault' = "InvalidOpcode" /\ UNCHANGED <<pc, op, at>>
       ELSE LET n == ARITY[BinRead(bin, pc) + 1] IN
            /\ pc' = pc + 1 + n
            /\ IF ~InBounds(bin, pc + n)
                 THEN \* b[i + 1], b[i + 2] or b[i + 3] panics
                      fault' = "OutOfBounds" /\ UNCHANGED <<op, at>>
                 ELSE op' = Decode(bin, pc) /\ at' = "run_op" /\ UNCHANGED fault

(* ---------------------------------------------------------------------- *)
(* Vm::run_op: one action per arm of the match                             *)
(* ---------------------------------------------------------------------- *)
Exec(tag) == at = "run_op" /\ fault = "none" /\ op.tag = tag /\ UNCHANGED <<op, i>>

OpHlt ==
    /\ Exec("Hlt")
    /\ Halt
    /\ UNCHANGED <<pc, bin, regs, stack, input, out, stdin, retaddr, wrote>>

OpSet ==
    /\ Exec("Set")
    /\ IF ~Resolvable(op.b) THEN Abort("InvalidOperand")
       ELSE IF ~SetOk(op.a) THEN Abort("InvalidRegister")
       ELSE /\ regs' = set(regs, op.a, v(regs, op.b))
            /\ Continue
            /\ UNCHANGED <<pc, bin, stack, input, out, stdin, retaddr, wrote>>

OpPush ==
    /\ Exec("Push")
    /\ Len(stack) < MaxStack
    /\ IF ~Resolvable(op.a) THEN Abort("InvalidOperand")
       ELSE /\ stack' = Append(stack, v(regs, op.a))
            /\ retaddr' = Append(retaddr, -1)
            /\ Continue
            /\ UNCHANGED <<pc, bin, regs, input, out, stdin, wrote>>

\* pop.unwrap() when stack.pop() returned None
UnwrapNoneHalts ==
    /\ at' = "next_op" /\ state' = "Halted"
    /\ UNCHANGED <<fault, pc, bin, regs, stack, input, out, stdin, retaddr, wrote>>

UnwrapNone == Abort("StackUnderflow")

OpPop ==
    /\ Exec("Pop")
    /\ IF stack = <<>>
         THEN UnwrapNone
         ELSE /\ stack' = Front(stack)
              /\ retaddr' = Front(retaddr)
              /\ UNCHANGED <<pc, bin, input, out, stdin, wrote>>
              /\ IF ~SetOk(op.a)
                   THEN Panic("InvalidRegister") /\ UNCHANGED regs
                   ELSE regs' = set(regs, op.a, Last(stack)) /\ Continue

OpEq ==
    /\ Exec("Eq")
    /\ IF ~Resolvable(op.b) \/ ~Resolvable(op.c) THEN Abort("InvalidOperand")
       ELSE IF ~SetOk(op.a) THEN Abort("InvalidRegister")
       ELSE /\ regs' = set(regs, op.a, int(v(regs, op.b) = v(regs, op.c)))
            /\ Continue
            /\ UNCHANGED <<pc, bin, stack, input, out, stdin, retaddr, wrote>>

OpGt ==
    /\ Exec("Gt")
    /\ IF ~Resolvable(op.b) \/ ~Resolvable(op.c) THEN Abort("InvalidOperand")
       ELSE IF ~SetOk(op.a) THEN Abort("InvalidRegister")
       ELSE /\ regs' = set(regs, op.a, int(v(regs, op.b) > v(regs, op.c)))
            /\ Continue
            /\ UNCHANGED <<pc, bin, stack, input, out, stdin, retaddr, wrote>>

OpJmp ==
    /\ Exec("Jmp")
    /\ IF ~Resolvable(op.a) THEN Abort("InvalidOperand")
       ELSE /\ pc' = v(regs, op.a)
            /\ Continue
            /\ UNCHANGED <<bin, regs, stack, input, out, stdin, retaddr, wrote>>

OpJtEager ==
    /\ Exec("Jt")
    /\ IF ~Resolvable(op.a) \/ ~Resolvable(op.b) THEN Abort("InvalidOperand")
       ELSE IF v(regs, op.a) # 0
         THEN /\ pc' = v(regs, op.b)
              /\ Continue
              /\ UNCHANGED <<bin, regs, stack, input, out, stdin, retaddr, wrote>>
       ELSE /\ Continue
            /\ UNCHANGED <<pc, bin, regs, stack, input, out, stdin, retaddr, wrote>>

OpJt ==
    /\ Exec("Jt")
    /\ IF ~Resolvable(op.a) THEN Abort("InvalidOperand")
       ELSE IF v(regs, op.a) # 0
         THEN IF ~Resolvable(op.b) THEN Abort("InvalidOperand")
              ELSE /\ pc' = v(regs, op.b)
                   /\ Continue
                   /\ UNCHANGED <<bin, regs, stack, input, out, stdin, retaddr, wrote>>
       ELSE /\ Continue
            /\ UNCHANGED <<pc, bin, regs, stack, input, out, stdin, retaddr, wrote>>

OpJf ==
    /\ Exec("Jf")
    /\ IF ~Resolvable(op.a) THEN Abort("InvalidOperand")
       ELSE IF v(regs, op.a) = 0
         THEN IF ~Resolvable(op.b) THEN Abort("InvalidOperand")
              ELSE /\ pc' = v(regs, op.b)
                   /\ Continue
                   /\ UNCHANGED <<bin, regs, stack, input, out, stdin, retaddr, wrote>>
       ELSE /\ Continue
            /\ UNCHANGED <<pc, bin, regs, stack, input, out, stdin, retaddr, wrote>>

\* v(b) + v(c) on u16: at most 65534, never overflows
AddSaturating(x, y) == IF x + y >= Modulus THEN Modulus - 1 ELSE x + y

AddWords(x, y) == x + y

OpAdd ==
    /\ Exec("Add")
    /\ IF ~Resolvable(op.b) \/ ~Resolvable(op.c) THEN Abort("InvalidOperand")
       ELSE IF ~SetOk(op.a) THEN Abort("InvalidRegister")
       ELSE /\ regs' = set(regs, op.a, AddWords(v(regs, op.b), v(regs, op.c)))
            /\ Continue
            /\ UNCHANGED <<pc, bin, stack, input, out, stdin, retaddr, wrote>>

\* v(b) * v(c) on u16: a product of 65536 or more overflows.  The build
\* decides what happens: with overflow checks (the debug profile) the
\* multiplication panics, without them (the release profile) it wraps.
MulOverflows(x, y) == x * y >= WordSize

MulWrapped(x, y) == (x * y) % WordSize

OpMul ==
    /\ Exec("Mul")
    /\ IF ~Resolvable(op.b) \/ ~Resolvable(op.c) THEN Abort("InvalidOperand")
       ELSE \/ /\ MulOverflows(v(regs, op.b), v(regs, op.c))
               /\ Abort("Overflow")
            \/ IF ~SetOk(op.a) THEN Abort("InvalidRegister")
               ELSE /\ regs' = set(regs, op.a, MulWrapped(v(regs, op.b), v(regs, op.c)))
                    /\ Continue
                    /\ UNCHANGED <<pc, bin, stack, input, out, stdin, retaddr, wrote>>

\* v(b) % v(c) with v(c) = 0: the remainder panics, in every build
RemByZeroIsZero ==
    IF ~SetOk(op.a) THEN Abort("InvalidRegister")
    ELSE /\ regs' = set(regs, op.a, 0)
         /\ at' = "next_op" /\ state' = "Running"
         /\ UNCHANGED <<fault, pc, bin, stack, input, out, stdin, retaddr, wrote>>

RemByZero == Abort("DivisionByZero")

OpMod ==
    /\ Exec("Mod")
    /\ IF ~Resolvable(op.b) \/ ~Resolvable(op.c) THEN Abort("InvalidOperand")
       ELSE IF v(regs, op.c) = 0
         THEN RemByZero
       ELSE IF ~SetOk(op.a) THEN Abort("InvalidRegister")
       ELSE /\ regs' = set(regs, op.a, v(regs, op.b) % v(regs, op.c))
            /\ Continue
            /\ UNCHANGED <<pc, bin, stack, input, out, stdin, retaddr, wrote>>

OpAnd ==
    /\ Exec("And")
    /\ IF ~Resolvable(op.b) \/ ~Resolvable(op.c) THEN Abort("InvalidOperand")
       ELSE IF ~SetOk(op.a) THEN Abort("InvalidRegister")
       ELSE /\ regs' = set(regs, op.a, BitAnd(v(regs, op.b), v(regs, op.c)))
            /\ Continue
            /\ UNCHANGED <<pc, bin, stack, input, out, stdin, retaddr, wrote>>

OpOr ==
    /\ Exec("Or")
    /\ IF ~Resolvable(op.b) \/ ~Resolvable(op.c) THEN Abort("InvalidOperand")
       ELSE IF ~SetOk(op.a) THEN Abort("InvalidRegister")
       ELSE /\ regs' = set(regs, op.a, BitOr(v(regs, op.b), v(regs, op.c)))
            /\ Continue
            /\ UNCHANGED <<pc, bin, stack, input, out, stdin, retaddr, wrote>>

OpNot ==
    /\ Exec("Not")
    /\ IF ~Resolvable(op.b) THEN Abort("InvalidOperand")
       ELSE IF ~SetOk(op.a) THEN Abort("InvalidRegister")
       ELSE /\ regs' = set(regs, op.a, BitNot(v(regs, op.b)))
            /\ Continue
            /\ UNCHANGED <<pc, bin, stack, input, out, stdin, retaddr, wrote>>

\* the address Rmem reads: v(b) as usize
RmemAddr(r, b) == v(r, b)

OpRmem ==
    /\ Exec("Rmem")
    /\ IF ~Resolvable(op.b) THEN Abort("InvalidOperand")
       ELSE IF ~InBounds(bin, RmemAddr(regs, op.b)) THEN Abort("OutOfBounds")
       ELSE IF ~SetOk(op.a) THEN Abort("InvalidRegister")
       ELSE /\ regs' = set(regs, op.a, BinRead(bin, RmemAddr(regs, op.b)))
            /\ Continue
            /\ UNCHANGED <<pc, bin, stack, input, out, stdin, retaddr, wrote>>

OpWmem ==
    /\ Exec("Wmem")
    /\ IF ~Resolvable(op.a) \/ ~Resolvable(op.b) THEN Abort("InvalidOperand")
       ELSE IF ~InBounds(bin, v(regs, op.a)) THEN Abort("OutOfBounds")
       ELSE /\ bin' = BinWrite(bin, v(regs, op.a), v(regs, op.b))
            /\ wrote' = [j \in (DOMAIN wrote) \cup {v(regs, op.a)} |->
                            IF j = v(regs, op.a) THEN v(regs, op.b) ELSE wrote[j]]
            /\ Continue
            /\ UNCHANGED <<pc, regs, stack, input, out, stdin, retaddr>>

\* self.pc as u16
PcWord(p) == p % WordSize

OpCallPushFirst ==
    /\ Exec("Call")
    /\ Len(stack) < MaxStack
    /\ stack' = Append(stack, PcWord(pc))
    /\ retaddr' = Append(retaddr, i)
    /\ UNCHANGED <<bin, regs, input, out, stdin, wrote>>
    /\ IF ~Resolvable(op.a) THEN Panic("InvalidOperand") /\ UNCHANGED pc
       ELSE pc' = v(regs, op.a) /\ Continue

OpCall ==
    /\ Exec("Call")
    /\ Len(stack) < MaxStack
    /\ IF ~Resolvable(op.a) THEN Abort("InvalidOperand")
       ELSE /\ stack' = Append(stack, PcWord(pc))
            /\ retaddr' = Append(retaddr, i)
            /\ pc' = v(regs, op.a)
            /\ Continue
            /\ UNCHANGED <<bin, regs, input, out, stdin, wrote>>

OpRet ==
    /\ Exec("Ret")
    /\ IF stack = <<>>
         THEN /\ Halt
              /\ UNCHANGED <<pc, bin, regs, stack, input, out, stdin, retaddr, wrote>>
         ELSE /\ stack' = Front(stack)
              /\ retaddr' = Front(retaddr)
              /\ pc' = Last(stack)
              /\ Continue
              /\ UNCHANGED <<bin, regs, input, out, stdin, wrote>>

\* print!("{}", a as u8 as char): the raw operand word, not v(a)
OpOut ==
    /\ Exec("Out")
    /\ Len(out) < MaxOut
    /\ out' = out \o Utf8(op.a % ByteSize)
    /\ Continue
    /\ UNCHANGED <<pc, bin, regs, stack, input, stdin, retaddr, wrote>>

OpIn ==
    /\ Exec("In")
    /\ LET n == IF input = <<>> THEN LineLen(stdin) ELSE 0
           \* after read_until and reverse, when the buffer was empty
           buf == IF input = <<>> THEN Reverse(SubSeq(stdin, 1, n)) ELSE input
       IN /\ stdin' = SubSeq(stdin, n + 1, Len(stdin))
          /\ UNCHANGED <<pc, bin, stack, out, retaddr, wrote>>
          /\ IF buf = <<>>
               THEN input' = buf /\ Halt /\ UNCHANGED regs
               ELSE /\ input' = Front(buf)
                    /\ IF ~SetOk(op.a)
                         THEN Panic("InvalidRegister") /\ UNCHANGED regs
                         ELSE regs' = set(regs, op.a, Last(buf)) /\ Continue

OpNoopClobbers ==
    /\ Exec("Noop")
    /\ Continue
    /\ regs' = set(regs, 0, 1)
    /\ UNCHANGED <<pc, bin, stack, input, out, stdin, retaddr, wrote>>

OpNoop ==
    /\ Exec("Noop")
    /\ Continue
    /\ UNCHANGED <<pc, bin, regs, stack, input, out, stdin, retaddr, wrote>>

(* ---------------------------------------------------------------------- *)
(* The inputs: program images (the file read by Vm::new) and the bytes of  *)
(* the input channel                                                       *)
(* ---------------------------------------------------------------------- *)
\* source operands: literals, register words, and words v rejects
Srcs == {0, 200, 32768, 32769, 32775, 32776, 65535}

\* destination operands: register words, a raw index, and indexes set rejects
Dests == {2, 32768, 8, 32776}

\* Set r0 x; Set r1 y
Setup(x, y) == <<1, 32768, x, 1, 32769, y>>

Setups == {Setup(0, 3), Setup(256, 200), Setup(32767, 32767)}

\* one instruction of every opcode, over Dests and Srcs
Instrs ==
    {<<0>>, <<18>>, <<21>>}
    \cup {<<code, a>> : code \in {2, 6, 17, 19}, a \in Srcs}
    \cup {<<code, a>> : code \in {3, 20}, a \in Dests}
    \cup {<<code, a, b>> : code \in {1, 14, 15}, a \in Dests, b \in Srcs}
    \cup {<<code, a, b>> : code \in {7, 8, 16}, a \in Srcs, b \in Srcs}
    \cup {<<code, a, b, c>> : code \in {4, 5, 9, 10, 11, 12, 13},
                               a \in Dests, b \in Srcs, c \in Srcs}

\* two registers set, one instruction, Hlt
UnitImages == {Image(s \o ins \o <<0>>) : s \in Setups, ins \in Instrs}

\* instructions combined into short programs: stack, memory, calls, input
Pool ==
    {<<2, 7>>, <<2, 32768>>, <<3, 32768>>, <<3, 8>>, <<17, 2>>, <<17, 5>>, <<18>>,
     <<16, 10, 32767>>, <<16, 10, 32768>>, <<16, 3, 21>>, <<15, 32769, 10>>,
     <<15, 32768, 1>>, <<20, 32768>>, <<20, 8>>, <<19, 65>>, <<1, 32768, 300>>}

\* three instructions, then Hlt and spare words up to address 11
Padding(n) == [j \in 1 .. n |-> 0]

ComboWords == {i1 \o i2 \o i3 : i1 \in Pool, i2 \in Pool, i3 \in Pool}

ComboImages == {Image(ws \o Padding(12 - Len(ws))) : ws \in ComboWords}

\* an image of more than 65536 words: Jmp 32767; Ret; Noop ...; Call 2; Hlt
LongImage ==
    [len |-> 65540, fill |-> 21,
     w |-> [j \in {0, 1, 2, 65534, 65535, 65536} |->
               CASE j = 0 -> 6 [] j = 1 -> 32767 [] j = 2 -> 18
                 [] j = 65534 -> 17 [] j = 65535 -> 2 [] j = 65536 -> 0]]

\* In r0; In r1; In r2; In r3; Out r0; Hlt
InputImage == Image(<<20, 32768, 20, 32769, 20, 32770, 20, 32771, 19, 32768, 0>>)

Stdins == {<<>>, <<10>>, <<97, 10>>, <<97, 98, 10, 99, 10>>, <<200, 10, 98>>}

\* the word 22 is no opcode; a last instruction cut short by the end of the image
BrokenImages == {Image(<<22>>), Image(<<21, 9, 32768>>), Image(<<>>)}

\* Set r0 x; Set r1 y; Not r2, r0; Not r3, r2; Hlt
NotNotImages == {Image(su \o <<14, 32770, 32768, 14, 32771, 32770, 0>>) : su \in Setups}

\* Noop; Noop; Noop; Hlt
NoopImage == Image(<<21, 21, 21, 0>>)

Inputs ==
    {<<img, <<>>>> : img \in UnitImages \cup BrokenImages \cup {LongImage}
                             \cup NotNotImages \cup {NoopImage}}
    \cup {<<img, <<97, 98, 10, 99>>>> : img \in ComboImages}
    \cup {<<InputImage, s>> : s \in Stdins}

(* ---------------------------------------------------------------------- *)
(* Vm::new, and main                                                       *)
(* ---------------------------------------------------------------------- *)
Init ==
    /\ \E inp \in Inputs : bin = inp[1] /\ stdin = inp[2]
    /\ i = 0
    /\ pc = 0
    /\ regs = [r \in 0 .. NumRegs - 1 |-> 0]
    /\ stack = <<>>
    /\ input = <<>>
    /\ state = "Running"
    /\ op = NoOp
    /\ at = "next_op"
    /\ fault = "none"
    /\ out = <<>>
    /\ retaddr = <<>>
    /\ wrote = [j \in {} |-> 0]

Next ==
    \/ NextOp
    \/ OpHlt
    \/ OpSet
    \/ OpPush
    \/ OpPop
    \/ OpEq
    \/ OpGt
    \/ OpJmp
    \/ OpJt
    \/ OpJf
    \/ OpAdd
    \/ OpMul
    \/ OpMod
    \/ OpAnd
    \/ OpOr
    \/ OpNot
    \/ OpRmem
    \/ OpWmem
    \/ OpCall
    \/ OpRet
    \/ OpOut
    \/ OpIn
    \/ OpNoop

Spec == Init /\ [][Next]_vars

TypeOK ==
    /\ pc \in Nat
    /\ \A r \in DOMAIN regs : regs[r] \in 0 .. WordSize - 1
    /\ \A j \in DOMAIN stack : stack[j] \in 0 .. WordSize - 1
    /\ \A j \in DOMAIN bin.w : bin.w[j] \in 0 .. WordSize - 1
    /\ \A j \in DOMAIN input : input[j] \in 0 .. ByteSize - 1
    /\ state \in {"Running", "Halted"}
    /\ at \in {"next_op", "run_op"}
    /\ Len(retaddr) = Len(stack)

(* ---------------------------------------------------------------------- *)
(* Properties                                                              *)
(* ---------------------------------------------------------------------- *)
\* run_op has returned from the instruction in `op` without a panic
Ran(tag) == at = "next_op" /\ fault = "none" /\ op.tag = tag

\* C1: in every reachable state each of the 8 registers holds a value in
\* 0 .. 32767.
C1_RegistersInRange ==
    /\ DOMAIN regs = 0 .. NumRegs - 1
    /\ \A r \in DOMAIN regs : regs[r] >= 0 /\ regs[r] < Modulus

\* Not of the literal 0 has run: !0 = 65535 was handed to set, 32767 is stored
C1_Witness ==
    /\ Ran("Not") /\ op.b = 0 /\ SetOk(op.a)
    /\ regs[op.a % Modulus] = Modulus - 1

\* C2: Out a appends exactly one byte, v(a) mod 256, to the output, for a
\* literal operand and for a register operand alike.
C2_OutEmitsResolvedByte ==
    [][(at = "run_op" /\ op.tag = "Out" /\ Resolvable(op.a) /\ fault' = "none")
          => out' = Append(out, v(regs, op.a) % ByteSize)]_vars

\* C3: Mul a,b,c with resolvable b and c and a destination register completes
\* without a fault and stores (v(b) * v(c)) mod 32768, whatever the product.
C3_MulNeverFaults ==
    [][(at = "run_op" /\ op.tag = "Mul" /\ Resolvable(op.b) /\ Resolvable(op.c)
          /\ SetOk(op.a))
          => /\ fault' = "none"
             /\ regs'[op.a % Modulus] = (v(regs, op.b) * v(regs, op.c)) % Modulus]_vars

\* C4: Add a,b,c with resolvable b and c and a destination register completes
\* without a fault and stores (v(b) + v(c)) mod 32768.
C4_AddModulo ==
    [][(at = "run_op" /\ op.tag = "Add" /\ Resolvable(op.b) /\ Resolvable(op.c)
          /\ SetOk(op.a))
          => /\ fault' = "none"
             /\ at' = "next_op"
             /\ regs'[op.a % Modulus] = (v(regs, op.b) + v(regs, op.c)) % Modulus]_vars

\* Add r2, r0, r1 has run with 32767 in r0 and in r1: the sum 65534 is stored
\* as 32766
C4_Witness ==
    /\ Ran("Add") /\ op.a = 2 /\ op.b = 32768 /\ op.c = 32769
    /\ regs[0] = 32767 /\ regs[1] = 32767 /\ regs[2] = 32766

\* C5: a Ret that pops the entry pushed by a Call at address p (the stack is
\* back to what the Call left) sets pc to p + 2, for every p and memory size.
C5_RetReturnsAfterCall ==
    [][(at = "run_op" /\ op.tag = "Ret" /\ stack # <<>> /\ Last(retaddr) # -1)
          => pc' = Last(retaddr) + 2]_vars

\* C6: Pop on an empty stack ends the run with a fault and never as Halted;
\* Ret on an empty stack ends it as Halted without a fault.
C6_PopFaultsRetHalts ==
    [][/\ (at = "run_op" /\ op.tag = "Pop" /\ stack = <<>>)
            => (fault' = "StackUnderflow" /\ state' = "Running")
       /\ (at = "run_op" /\ op.tag = "Ret" /\ stack = <<>>)
            => (fault' = "none" /\ state' = "Halted")]_vars

\* Pop has been executed on an empty stack
C6_Witness ==
    op.tag = "Pop" /\ fault = "StackUnderflow" /\ stack = <<>> /\ state # "Halted"

\* the three instructions that return State::Halted
Halting ==
    /\ at = "run_op"
    /\ \/ op.tag = "Hlt"
       \/ op.tag = "Ret" /\ stack = <<>>
       \/ op.tag = "In" /\ input = <<>> /\ stdin = <<>>

\* C7: state goes from Running to Halted exactly on Hlt, on Ret with an empty
\* stack and on In with the input exhausted; every other instruction that
\* does not fault leaves it Running; once Halted, nothing is decoded or
\* executed and no variable changes.
C7_HaltedIsTerminal ==
    [][/\ (state = "Running" /\ state' = "Halted") => Halting
       /\ Halting => (state' = "Halted" /\ fault' = "none")
       /\ (at = "run_op" /\ ~Halting /\ fault' = "none") => state' = "Running"
       /\ state = "Halted" => UNCHANGED vars]_vars

\* In has halted the machine: the buffer was empty and the channel at its end
C7_Witness ==
    Ran("In") /\ state = "Halted" /\ input = <<>> /\ stdin = <<>>

\* the operand words the instruction reads as source values
SourceWords(o) ==
    CASE o.tag \in {"Push", "Jmp", "Jt", "Jf", "Call", "Out"} -> {o.a}
      [] o.tag \in {"Set", "Not", "Rmem"} -> {o.b}
      [] o.tag = "Wmem" -> {o.a, o.b}
      [] o.tag \in {"Eq", "Gt", "Add", "Mul", "Mod", "And", "Or"} -> {o.b, o.c}
      [] OTHER -> {}

\* C8: executing an instruction one of whose source operands is a word in
\* 32776 .. 65535 aborts the run with an invalid-operand fault.
C8_InvalidSourceFaults ==
    [][(at = "run_op" /\ \E x \in SourceWords(op) : ~Resolvable(x))
          => fault' = "InvalidOperand"]_vars

\* C9: Mod a,b,c with v(c) = 0 aborts the run: the fault is the division by
\* zero (the invalid operand when b itself cannot be resolved), no register
\* is written, and nothing is decoded or executed afterwards.
C9_ModByZeroAborts ==
    [][/\ (at = "run_op" /\ op.tag = "Mod" /\ Resolvable(op.c) /\ v(regs, op.c) = 0)
            => /\ fault' = IF Resolvable(op.b) THEN "DivisionByZero"
                           ELSE "InvalidOperand"
               /\ regs' = regs
               /\ at' = "run_op"
       /\ fault = "DivisionByZero" => UNCHANGED vars]_vars

\* Mod has been executed with a divisor that resolves to 0
C9_Witness ==
    /\ op.tag = "Mod" /\ fault = "DivisionByZero" /\ at = "run_op"
    /\ Resolvable(op.c) /\ v(regs, op.c) = 0

\* C10: Rmem of an address A that Wmem has written, with no later Wmem to A,
\* stores in its destination register the value x of that Wmem, mod 32768.
C10_WmemRmemRoundTrip ==
    [][(/\ at = "run_op" /\ op.tag = "Rmem" /\ Resolvable(op.b) /\ SetOk(op.a)
        /\ v(regs, op.b) \in DOMAIN wrote)
          => /\ fault' = "none"
             /\ regs'[op.a % Modulus] = wrote[v(regs, op.b)] % Modulus]_vars

\* Rmem r1, 10 has run after Wmem 10, 32767
C10_Witness ==
    /\ Ran("Rmem") /\ op.b = 10 /\ op.a = 32769
    /\ 10 \in DOMAIN wrote /\ wrote[10] = 32767 /\ regs[1] = 32767

\* C11: every decode reads the current memory: a word that Wmem has stored at
\* the address of the opcode or of an operand of the instruction being decoded
\* is the opcode or operand that is decoded.
C11_DecodeSeesWrites ==
    [][(at = "next_op" /\ at' = "run_op")
          => /\ pc \in DOMAIN wrote
                  => (wrote[pc] < NumOps /\ op'.tag = OpTag[wrote[pc] + 1])
             /\ (pc' - pc >= 2 /\ pc + 1 \in DOMAIN wrote) => op'.a = wrote[pc + 1]
             /\ (pc' - pc >= 3 /\ pc + 2 \in DOMAIN wrote) => op'.b = wrote[pc + 2]
             /\ (pc' - pc >= 4 /\ pc + 3 \in DOMAIN wrote) => op'.c = wrote[pc + 3]]_vars

\* Wmem 3, 21 has overwritten the opcode at address 3, and the decode at 3
\* has produced Noop (no image holds a Noop there when it is loaded)
C11_Witness ==
    /\ at = "run_op" /\ i = 3 /\ 3 \in DOMAIN wrote /\ wrote[3] = 21
    /\ op.tag = "Noop"

\* the bytes not yet handed to an In, in the order of the input channel
Pending == Reverse(input) \o stdin

\* C12: In with an empty buffer requests exactly one line (up to and with its
\* newline, or up to the end of the stream); In with bytes in the buffer
\* requests nothing; each In takes the first pending byte, in the original
\* order, and stores it in its destination register.
C12_InputOrder ==
    [][(at = "run_op" /\ op.tag = "In")
          => LET taken == SubSeq(stdin, 1, Len(stdin) - Len(stdin')) IN
             /\ stdin = taken \o stdin'
             /\ input # <<>> => taken = <<>>
             /\ (input = <<>> /\ stdin # <<>>)
                  => /\ taken # <<>>
                     /\ \A k \in 1 .. Len(taken) - 1 : taken[k] # Newline
                     /\ taken[Len(taken)] = Newline \/ stdin' = <<>>
             /\ Pending # <<>>
                  => /\ Reverse(input') \o stdin' = Tail(Pending)
                     /\ SetOk(op.a) => (fault' = "none"
                                         /\ regs'[op.a % Modulus] = Head(Pending))]_vars

\* four In have read "ab\n" and then "c" of the next line, whose newline is
\* still in the buffer
C12_Witness ==
    /\ Ran("In") /\ op.a = 32771
    /\ regs[0] = 97 /\ regs[1] = 98 /\ regs[2] = Newline /\ regs[3] = 99
    /\ input = <<Newline>> /\ stdin = <<>>

\* C13: Eq stores 1 exactly when v(b) = v(c) and Gt exactly when v(b) > v(c),
\* and 0 otherwise: the stored result is never anything but 0 or 1.
C13_EqGtBoolean ==
    [][(/\ at = "run_op" /\ op.tag \in {"Eq", "Gt"} /\ SetOk(op.a)
        /\ Resolvable(op.b) /\ Resolvable(op.c))
          => LET x == v(regs, op.b)
                 y == v(regs, op.c)
                 holds == IF op.tag = "Eq" THEN x = y ELSE x > y
             IN /\ fault' = "none"
                /\ regs'[op.a % Modulus] \in {0, 1}
                /\ regs'[op.a % Modulus] = 1 <=> holds]_vars

\* Gt r2, 200, r1 has run with 3 in r1 and has stored 1
C13_Witness ==
    /\ Ran("Gt") /\ op.a = 2 /\ op.b = 200 /\ op.c = 32769
    /\ regs[1] = 3 /\ regs[2] = 1

\* C14: Not stores 32767 - v(b), and Not applied to what it stored gives
\* v(b) back.
C14_NotSelfInverse ==
    [][(at = "run_op" /\ op.tag = "Not" /\ SetOk(op.a) /\ Resolvable(op.b))
          => LET x == v(regs, op.b)
                 r == op.a % Modulus
             IN /\ fault' = "none"
                /\ regs'[r] = (Modulus - 1) - x
                /\ set(regs', op.a, BitNot(regs'[r]))[r] = x
                \* the second Not of Not r2, r0; Not r3, r2
                /\ (bin \in NotNotImages /\ i = 9) => regs'[3] = regs[0]]_vars

\* Not r2, r0 and then Not r3, r2 have run with 256 in r0: r3 is 256 again
C14_Witness ==
    /\ Ran("Not") /\ op.a = 32771 /\ op.b = 32770
    /\ regs[0] = 256 /\ regs[2] = 32511 /\ regs[3] = 256

\* C15: Noop and Hlt change neither registers, stack, memory nor the input
\* buffer and emit nothing; the program Noop, Noop, Noop, Hlt halts with the
\* registers 0, the stack empty, memory as loaded and no output.
C15_NoopHltFrame ==
    [][/\ (at = "run_op" /\ op.tag \in {"Noop", "Hlt"})
            => (fault' = "none" /\ UNCHANGED <<regs, stack, bin, input, out, stdin>>)
       /\ (at = "run_op" /\ op.tag = "Noop") => state' = "Running"
       /\ (bin = NoopImage /\ at = "run_op" /\ op.tag = "Hlt")
            => /\ state' = "Halted"
               /\ regs' = [r \in 0 .. NumRegs - 1 |-> 0]
               /\ stack' = <<>> /\ out' = <<>> /\ bin' = NoopImage]_vars

\* the program of three Noop and a Hlt has halted at its Hlt
C15_Witness ==
    /\ bin = NoopImage /\ Ran("Hlt") /\ state = "Halted" /\ i = 3
    /\ out = <<>> /\ stack = <<>>

\* the operand count of the opcode of a decoded instruction
TagArity(tag) == ARITY[CHOOSE k \in 1 .. NumOps : OpTag[k] = tag]

\* C16: decode advances pc by 1 + arity before the instruction takes effect:
\* a non-jumping instruction at p leaves pc = p + 1 + arity; Jmp, a taken
\* Jt/Jf and Call leave pc = v(target) exactly; Call pushes p + 2.
C16_PcAdvancedBeforeDispatch ==
    [][/\ (at = "next_op" /\ at' = "run_op")
            => (i' = pc /\ pc' = pc + 1 + TagArity(op'.tag))
       /\ at = "run_op" => pc = i + 1 + TagArity(op.tag)
       /\ (at = "run_op" /\ fault' = "none")
            => CASE op.tag = "Jmp" -> pc' = v(regs, op.a)
                 [] op.tag = "Jt" ->
                      pc' = IF v(regs, op.a) # 0 THEN v(regs, op.b) ELSE i + 3
                 [] op.tag = "Jf" ->
                      pc' = IF v(regs, op.a) = 0 THEN v(regs, op.b) ELSE i + 3
                 [] op.tag = "Call" ->
                      pc' = v(regs, op.a) /\ Last(stack') = i + 2
                 [] op.tag = "Ret" -> TRUE
                 [] OTHER -> pc' = i + 1 + TagArity(op.tag)]_vars

\* the twelve instructions that call Vm::set
Writers == {"Set", "Pop", "Eq", "Gt", "Add", "Mul", "Mod", "And", "Or", "Not",
            "Rmem", "In"}

\* C17: an instruction with a destination operand a changes no register but
\* the one of index a mod 32768 (the raw word, whatever the registers hold)
\* and changes no memory; when it completes, that index names a register; no
\* other instruction, and no decode, changes a register.
C17_OnlyDestinationWritten ==
    [][/\ at = "next_op" => regs' = regs
       /\ (at = "run_op" /\ op.tag \notin Writers) => regs' = regs
       /\ (at = "run_op" /\ op.tag \in Writers)
            => /\ \A r \in 0 .. NumRegs - 1 :
                     r # op.a % Modulus => regs'[r] = regs[r]
               /\ bin' = bin
               /\ (fault' = "none" /\ state' = "Running") => SetOk(op.a)]_vars

\* Set 2, 200 has run: the raw index 2 names r2, which holds 200; r0 and r1
\* keep what the program had set, r3 .. r7 are still 0
C17_Witness ==
    /\ Ran("Set") /\ op.a = 2 /\ op.b = 200
    /\ regs[2] = 200 /\ regs[0] = 256 /\ regs[1] = 200
    /\ \A r \in 3 .. NumRegs - 1 : regs[r] = 0

\* the instruction in `op` jumps: Jmp, Call, Jt on nonzero, Jf on zero
Jumps ==
    \/ op.tag \in {"Jmp", "Call"}
    \/ op.tag = "Jt" /\ Resolvable(op.a) /\ v(regs, op.a) # 0
    \/ op.tag = "Jf" /\ Resolvable(op.a) /\ v(regs, op.a) = 0

\* the operand word that holds its target
TargetWord == IF op.tag \in {"Jmp", "Call"} THEN op.a ELSE op.b

\* C18: a jump or call whose resolved target is at or beyond the end of
\* memory completes normally: state stays Running, pc is the target and Call
\* has pushed its return address; the fault comes at the next decode.
C18_JumpTargetsUnchecked ==
    [][/\ (/\ at = "run_op" /\ Jumps /\ Resolvable(TargetWord)
           /\ v(regs, TargetWord) >= bin.len)
            => /\ fault' = "none" /\ state' = "Running" /\ at' = "next_op"
               /\ pc' = v(regs, TargetWord)
               /\ stack' = IF op.tag = "Call" THEN Append(stack, i + 2) ELSE stack
       /\ (at = "next_op" /\ pc >= bin.len)
            => (fault' = "OutOfBounds" /\ at' = "next_op" /\ pc' = pc)]_vars

\* Call 200 at address 6 of a 9-word image has completed and pushed 8; the
\* decode at 200 has then faulted
C18_Witness ==
    /\ op.tag = "Call" /\ op.a = 200 /\ fault = "OutOfBounds" /\ at = "next_op"
    /\ pc = 200 /\ pc >= bin.len /\ stack = <<8>> /\ state = "Running"

\* C19: Jt on a zero condition and Jf on a nonzero condition do not resolve
\* the target operand b: whatever word b is, they complete without a fault
\* and leave pc at the next instruction.
C19_LazyTarget ==
    [][(/\ at = "run_op" /\ op.tag \in {"Jt", "Jf"} /\ Resolvable(op.a)
        /\ (op.tag = "Jt") <=> (v(regs, op.a) = 0))
          => /\ fault' = "none" /\ state' = "Running" /\ at' = "next_op"
             /\ pc' = pc /\ pc' = i + 3]_vars

\* Jt 0, 65535 has run and fallen through
C19_Witness ==
    /\ Ran("Jt") /\ op.a = 0 /\ op.b = 65535 /\ ~Resolvable(op.b)
    /\ pc = i + 3 /\ state = "Running"

\* C20 as stated: whenever a step aborts the run, registers, stack and memory
\* are as they were before the instruction was decoded.
C20_FaultAtomic ==
    [][(fault = "none" /\ fault' # "none")
          => UNCHANGED <<regs, stack, bin>>]_vars

\* C20 as amended: whenever a step aborts the run, registers and memory are
\* as they were before the instruction was decoded, and so is the stack,
\* except that Pop with a non-empty stack and a destination operand that
\* names no register has removed the top of the stack.
C20_FaultAtomicButPop ==
    [][(fault = "none" /\ fault' # "none")
          => /\ UNCHANGED <<regs, bin>>
             /\ IF at = "run_op" /\ op.tag = "Pop" /\ stack # <<>>
                  THEN ~SetOk(op.a) /\ stack' = Front(stack)
                  ELSE stack' = stack]_vars

\* Push 7; Pop 8 has run: Pop has taken the 7 off the stack and then aborted
\* in Vm::set
C20_Witness ==
    /\ op.tag = "Pop" /\ op.a = 8 /\ i = 2 /\ fault = "InvalidRegister"
    /\ stack = <<>> /\ at = "run_op"

====
